---------------------------- MODULE Spec2Model ----------------------------
(***************************************************************************)
(* Model of atroposlib/cli/sft.py: the SFT data grabber.  It registers     *)
(* with the Atropos API, polls for batches, selects sequences per group    *)
(* (grab_group_data) and appends the selected records to a JSONL file      *)
(* until num_seqs_to_save records have been counted.                       *)
(*                                                                         *)
(* Texts are sequences of one-character strings, scores are integers       *)
(* (the floats of the source scaled by ten).                               *)
(***************************************************************************)
EXTENDS Integers, Sequences, FiniteSets, TLC

VARIABLES
    pc,             \* position of sft_data_grabber's control flow
    err,            \* the exception that ended the run ("none" while running)
    cfg,            \* the arguments of sft_data_grabber
    total_count,    \* total_count (line 196)
    prev_total,     \* history: total_count before the last batch was added
    batch_count,    \* batch_count of the last iteration (line 237)
    pbar_n,         \* the progress bar's position (sum of pbar.update arguments)
    last_update,    \* history: the argument of the last pbar.update call
    data,           \* grab_batch: the batch returned by check_for_batch
    gi,             \* grab_batch: index of the next group of data
    count,          \* grab_batch: count
    file_exists,    \* whether filepath exists on the file system
    file_lines,     \* the lines of the file at filepath
    file_mode,      \* mode the run opened the file with ("none" before open)
    written,        \* history: number of jsonl_writer.write calls of this run
    requests,       \* history: the requests sent to the API, in order
    reg_body,       \* the json body of the register request
    nulls,          \* check_for_batch: not-ready responses seen in this call
    last_resp,      \* grab_batch: the last response check_for_batch received
    file_at_start,  \* history: whether filepath existed when the run began
    reset_resp,     \* history: the outcome of the reset request
    register_resp,  \* history: the outcome of the register request
    last_items,     \* history: the list the last grab_group_data call returned
    buffered,       \* records written to the handle that have not reached the disk
    selIn,          \* function harness: the arguments of the function called
    selOut          \* function harness: its result

vars == <<pc, err, cfg, total_count, prev_total, batch_count, pbar_n,
          last_update, data, gi, count, file_exists, file_lines, file_mode,
          written, requests, reg_body, nulls, last_resp, file_at_start,
          reset_resp, register_resp, last_items, buffered, selIn, selOut>>

-----------------------------------------------------------------------------
(* Bounds of the model *)

MaxTarget == 5      \* num_seqs_to_save ranges over -1..MaxTarget
MaxLog == 4         \* length at which the request log stops growing
MaxNulls == 1       \* value at which the not-ready counter stops growing
NumOldLines == 2    \* lines of a pre-existing output file
MaxCands == 2       \* selector harness: candidates per enumerated group
MaxTextLen == 2     \* prefix harness: characters per enumerated string
MaxStrings == 3     \* prefix harness: strings per enumerated list
MaxGroupSize == 3   \* handshake: group_size ranges over 1..MaxGroupSize

Min(a, b) == IF a <= b THEN a ELSE b
Max(a, b) == IF a >= b THEN a ELSE b

-----------------------------------------------------------------------------
(* Python string and list primitives used by the source *)

\* a comparison of the lengths alone
StartsWithLengthOnly(s, p) == Len(p) <= Len(s)

\* s.startswith(p)
StartsWith(s, p) == Len(p) <= Len(s) /\ SubSeq(s, 1, Len(p)) = p

\* prefix[:-1]
DropLast(s) == SubSeq(s, 1, Len(s) - 1)

\* s.find(sep) as a 1-based index, 0 when sep does not occur (sep non-empty)
FindFirst(s, sep) ==
    LET hits == {i \in 1..(Len(s) - Len(sep) + 1) :
                    SubSeq(s, i, i + Len(sep) - 1) = sep}
    IN  IF hits = {} THEN 0 ELSE CHOOSE i \in hits : \A j \in hits : i <= j

\* s.split(sep) for a non-empty sep: the pieces between the non-overlapping
\* occurrences of sep, scanned left to right
RECURSIVE StrSplit(_, _)
StrSplit(s, sep) ==
    LET i == FindFirst(s, sep)
    IN  IF i = 0 THEN <<s>>
        ELSE <<SubSeq(s, 1, i - 1)>>
             \o StrSplit(SubSeq(s, i + Len(sep), Len(s)), sep)

\* lst[:n] for any integer n
SliceTo(lst, n) ==
    IF n >= 0 THEN SubSeq(lst, 1, Min(n, Len(lst)))
    ELSE SubSeq(lst, 1, Max(Len(lst) + n, 0))

\* min(scores)
SeqMin(s) == CHOOSE x \in {s[i] : i \in 1..Len(s)} :
                \A j \in 1..Len(s) : x <= s[j]

\* the insertion placing a pair before the pairs of equal score
RECURSIVE InsertDescUnstable(_, _)
InsertDescUnstable(sorted, pair) ==
    IF sorted = <<>> THEN <<pair>>
    ELSE IF Head(sorted)[1] > pair[1]
         THEN <<Head(sorted)>> \o InsertDescUnstable(Tail(sorted), pair)
         ELSE <<pair>> \o sorted

\* insertion of one (score, chat) pair into a list sorted by descending
\* score, behind the pairs of equal score
RECURSIVE InsertDesc(_, _)
InsertDesc(sorted, pair) ==
    IF sorted = <<>> THEN <<pair>>
    ELSE IF Head(sorted)[1] >= pair[1]
         THEN <<Head(sorted)>> \o InsertDesc(Tail(sorted), pair)
         ELSE <<pair>> \o sorted

\* sorted(pairs, key=lambda pair: pair[0], reverse=True): stable
RECURSIVE SortedDesc(_)
SortedDesc(pairs) ==
    IF pairs = <<>> THEN <<>>
    ELSE InsertDesc(SortedDesc(DropLast(pairs)), pairs[Len(pairs)])

\* the pairs aligned at the end of the longer list
ZipFromEnd(scores, chats) ==
    LET m == Min(Len(scores), Len(chats))
    IN  [i \in 1..m |-> <<scores[Len(scores) - m + i],
                          chats[Len(chats) - m + i]>>]

\* zip(scores, chats): as long as the shorter of the two
Zip(scores, chats) ==
    [i \in 1..Min(Len(scores), Len(chats)) |-> <<scores[i], chats[i]>>]

-----------------------------------------------------------------------------
(* find_common_prefix *)

\* the while loop of lines 29-32: [ret |-> TRUE] is the return "" of line 32
RECURSIVE ShrinkTo(_, _)
ShrinkTo(prefix, s) ==
    IF StartsWith(s, prefix) THEN [ret |-> FALSE, prefix |-> prefix]
    ELSE IF DropLast(prefix) = <<>> THEN [ret |-> TRUE, prefix |-> <<>>]
         ELSE ShrinkTo(DropLast(prefix), s)

\* the for loop of lines 28-33
RECURSIVE PrefixLoop(_, _)
PrefixLoop(prefix, rest) ==
    IF rest = <<>> THEN prefix
    ELSE LET r == ShrinkTo(prefix, Head(rest))
         IN  IF r.ret THEN <<>> ELSE PrefixLoop(r.prefix, Tail(rest))

find_common_prefix(strings) ==
    IF strings = <<>> THEN <<>>
    ELSE PrefixLoop(strings[1], Tail(strings))

-----------------------------------------------------------------------------
(* grab_group_data *)

\* The tokenizer is an external collaborator; this stub decodes token ids
\* 1, 2, 3 to "a", "b", "ab" and concatenates.
Vocab == << <<"a">>, <<"b">>, <<"a", "b">> >>

RECURSIVE Decode(_)
Decode(chat) ==
    IF chat = <<>> THEN <<>> ELSE Vocab[Head(chat)] \o Decode(Tail(chat))

\* an absent key read as an empty list
HasKeyDefaulted(datagroup, k) == TRUE

\* A group is [fields, scores, messages, tokens]: fields is the set of keys
\* the dictionary has; an absent key's value is <<>> and is never read.
HasKey(datagroup, k) == k \in datagroup.fields

\* lines 122-130: the chats, or the exception raised while building them
BuildChats(datagroup, save_messages) ==
    IF save_messages
    THEN IF HasKey(datagroup, "messages")
         THEN [err |-> "none", chats |-> datagroup.messages]
         ELSE [err |-> "KeyError", chats |-> <<>>]
    ELSE IF ~HasKey(datagroup, "tokens")
         THEN [err |-> "KeyError", chats |-> <<>>]
         ELSE LET texts == [i \in 1..Len(datagroup.tokens) |->
                               Decode(datagroup.tokens[i])]
                  prefix == find_common_prefix(texts)
              IN  IF texts = <<>>
                  THEN [err |-> "none", chats |-> <<>>]
                  ELSE IF prefix = <<>>
                       \* str.split("") raises ValueError: empty separator
                       THEN [err |-> "ValueError", chats |-> <<>>]
                       ELSE IF \E i \in 1..Len(texts) :
                                   Len(StrSplit(texts[i], prefix)) < 2
                            THEN [err |-> "IndexError", chats |-> <<>>]
                            ELSE [err |-> "none",
                                  chats |-> [i \in 1..Len(texts) |->
                                      <<prefix, StrSplit(texts[i], prefix)[2]>>]]

\* lines 135-137: the record of one sorted pair
MakeRecord(pair, save_messages) ==
    IF save_messages
    THEN [messages |-> pair[2], score |-> pair[1]]
    ELSE [prefix |-> pair[2][1], completion |-> pair[2][2], score |-> pair[1]]

\* lines 133-142
SortChats(scores, chats, save_messages) ==
    LET sp == SortedDesc(Zip(scores, chats))
    IN  [i \in 1..Len(sp) |-> MakeRecord(sp[i], save_messages)]

\* lines 145-146
FilterNegative(sorted_chats, allow_negative_scores) ==
    IF ~allow_negative_scores
    THEN LET Keep(x) == x.score > 0 IN SelectSeq(sorted_chats, Keep)
    ELSE sorted_chats

\* the threshold test with >= for >
FilterMinDiffInclusive(sorted_chats, scores, minimum_score_diff_max_min) ==
    IF minimum_score_diff_max_min > 0
    THEN LET min_score == IF scores # <<>> THEN SeqMin(scores) ELSE 0
             Keep(x) == x.score - min_score >= minimum_score_diff_max_min
         IN  SelectSeq(sorted_chats, Keep)
    ELSE sorted_chats

\* lines 147-154
FilterMinDiff(sorted_chats, scores, minimum_score_diff_max_min) ==
    IF minimum_score_diff_max_min > 0
    THEN LET min_score == IF scores # <<>> THEN SeqMin(scores) ELSE 0
             Keep(x) == x.score - min_score > minimum_score_diff_max_min
         IN  SelectSeq(sorted_chats, Keep)
    ELSE sorted_chats

\* lines 93-157: [err, items]; items is the returned list when err = "none"
grab_group_data(datagroup, save_messages, save_top_n_per_group, allow_negative_scores, minimum_score_diff_max_min) ==
    LET b == BuildChats(datagroup, save_messages)
    IN  IF b.err # "none" THEN [err |-> b.err, items |-> <<>>]
        ELSE IF ~HasKey(datagroup, "scores")
        THEN [err |-> "KeyError", items |-> <<>>]
        ELSE LET sorted_chats ==
                     SortChats(datagroup.scores, b.chats, save_messages)
                 f1 == FilterNegative(sorted_chats, allow_negative_scores)
                 f2 == FilterMinDiff(f1, datagroup.scores,
                                     minimum_score_diff_max_min)
             IN  [err |-> "none", items |-> SliceTo(f2, save_top_n_per_group)]

-----------------------------------------------------------------------------
(* The API service: the groups and batches it may send *)

AllFields == {"scores", "messages", "tokens"}

Group(f, sc, ms, tk) ==
    [fields |-> f, scores |-> sc, messages |-> ms, tokens |-> tk]

\* scores 0.9, 0.1, -0.2; texts "ab", "aa", "a"
GroupA == Group(AllFields, <<9, 1, -2>>, <<1, 2, 3>>,
                << <<1, 2>>, <<1, 1>>, <<1>> >>)
\* one candidate, text "ab"
GroupB == Group(AllFields, <<1>>, <<4>>, << <<3>> >>)
\* no candidates
GroupEmpty == Group(AllFields, <<>>, <<>>, <<>>)
\* two scores for one candidate
GroupShort == Group(AllFields, <<3, 2>>, <<5>>, << <<1>> >>)
\* the scores key is missing
GroupNoScores == Group({"messages", "tokens"}, <<>>, <<6>>, << <<1>> >>)
\* the messages and tokens keys are missing
GroupNoCands == Group({"scores"}, <<1>>, <<>>, <<>>)
\* texts "a", "b": no common prefix
GroupNoPrefix == Group(AllFields, <<2, 1>>, <<7, 8>>, << <<1>>, <<2>> >>)

ServiceGroups ==
    {GroupA, GroupB, GroupEmpty, GroupShort, GroupNoScores, GroupNoCands,
     GroupNoPrefix}

WellFormed(g) ==
    /\ g.fields = AllFields
    /\ Len(g.scores) = Len(g.messages)
    /\ Len(g.scores) = Len(g.tokens)

\* The batches the service may send.  With save_top_n_per_group = 2 and
\* negative scores disallowed they yield 0, 0, 1, 3, 4, 2, 1 (then KeyError),
\* 0 (KeyError) and 2 records.
Batches ==
    {<<>>,
     <<GroupEmpty>>,
     <<GroupB>>,
     <<GroupA, GroupB>>,
     <<GroupA, GroupA>>,
     <<GroupB, GroupShort>>,
     <<GroupB, GroupNoScores>>,
     <<GroupNoCands>>,
     <<GroupNoPrefix>>}

\* What comes back for a request: an exception of the http client, a
\* non-success status, or a parsed json body.
HandshakeResponses == {"ok", "http_error", "transport"}

BatchResponses ==
    {[kind |-> k, batch |-> <<>>] :
        k \in {"transport", "http_error", "no_batch_field", "null"}}
    \cup {[kind |-> "batch", batch |-> b] : b \in Batches}

NoResponse == [kind |-> "none", batch |-> <<>>]

\* atroposlib.utils.io.parse_http_response: raises on a non-success status,
\* else returns the parsed body
ParseHttpResponse(resp) ==
    IF resp.kind = "http_error" THEN [err |-> "HTTPError", data |-> resp]
    ELSE [err |-> "none", data |-> resp]

-----------------------------------------------------------------------------
(* sft_data_grabber *)

RunCriteria ==
    {[save_messages |-> TRUE, save_top_n_per_group |-> 2,
      allow_negative_scores |-> FALSE, minimum_score_diff_max_min |-> 0],
     [save_messages |-> FALSE, save_top_n_per_group |-> 1,
      allow_negative_scores |-> TRUE, minimum_score_diff_max_min |-> 0]}

Configs ==
    {[append_to_previous |-> ap, num_seqs_to_save |-> n, criteria |-> c,
      group_size |-> 2, tasks_per_step |-> 64, max_token_len |-> 2048] :
        ap \in BOOLEAN, n \in -1..MaxTarget, c \in RunCriteria}

OldLines == [i \in 1..NumOldLines |-> [old |-> i]]

NoSelIn == [group |-> GroupEmpty, criteria |-> CHOOSE c \in RunCriteria : TRUE]
NoSelOut == [err |-> "unset", items |-> <<>>]

Init ==
    /\ pc = "Start"
    /\ err = "none"
    /\ cfg \in Configs
    /\ total_count = 0
    /\ prev_total = 0
    /\ batch_count = 0
    /\ pbar_n = 0
    /\ last_update = 0
    /\ data = <<>>
    /\ gi = 1
    /\ count = 0
    /\ file_exists \in BOOLEAN
    /\ file_lines = IF file_exists THEN OldLines ELSE <<>>
    /\ file_mode = "none"
    /\ written = 0
    /\ requests = <<>>
    /\ reg_body = [batch_size |-> 0, num_steps |-> 0, max_token_len |-> 0]
    /\ nulls = 0
    /\ last_resp = NoResponse
    /\ file_at_start = file_exists
    /\ reset_resp = "none"
    /\ register_resp = "none"
    /\ last_items = <<>>
    /\ buffered = 0
    /\ selIn = NoSelIn
    /\ selOut = NoSelOut

\* the request log stops growing at MaxLog entries
LogAppend(log, r) == IF Len(log) < MaxLog THEN Append(log, r) ELSE log

\* an exception propagates out of sft_data_grabber
Raise(e) ==
    /\ pc' = "Failed"
    /\ err' = e

\* the batch size without the tasks per step
RegisterBodyGroupOnly(group_size, max_token_len, num_steps, tasks_per_step) ==
    [batch_size |-> group_size,
     num_steps |-> num_steps * 2,
     max_token_len |-> max_token_len]

\* lines 57-68: the json body of the register request
RegisterBody(group_size, max_token_len, num_steps, tasks_per_step) ==
    [batch_size |-> group_size * tasks_per_step,
     num_steps |-> num_steps * 2,
     max_token_len |-> max_token_len]

\* the client's exception swallowed
HandshakeNeverRaises(r) == FALSE

\* lines 52-71: an exception of the http client leaves register_to_api; a
\* response of any status is printed
HandshakeRaises(r) == r = "transport"

\* line 232: leaving the with block, by the end of the loop or by an
\* exception, closes the handle, which writes its buffer to the disk
BufferAfter(pcNext, b) == IF pcNext \in {"Done", "Failed"} THEN 0 ELSE b

\* line 216 -> line 54: register_to_api sends the reset request
SendReset ==
    /\ pc = "Start"
    /\ pc' = "AwaitReset"
    /\ requests' = LogAppend(requests, "reset")
    /\ UNCHANGED buffered
    /\ UNCHANGED <<err, cfg, total_count, prev_total, batch_count, pbar_n,
                   last_update, data, gi, count, file_exists, file_lines,
                   file_mode, written, reg_body, nulls, last_resp, selIn, selOut,
                   file_at_start, reset_resp, register_resp, last_items>>

\* lines 54-57: the reset response is printed, the register request is sent
ResetResponse(r) ==
    /\ pc = "AwaitReset"
    /\ reset_resp' = r
    /\ IF HandshakeRaises(r)
       THEN /\ Raise("ClientError")
            /\ UNCHANGED <<requests, reg_body>>
       ELSE /\ pc' = "AwaitRegister"
            /\ requests' = LogAppend(requests, "register")
            /\ reg_body' = RegisterBody(cfg.group_size, cfg.max_token_len,
                                        total_count, cfg.tasks_per_step)
            /\ err' = err
    /\ UNCHANGED buffered
    /\ UNCHANGED <<cfg, total_count, prev_total, batch_count, pbar_n,
                   last_update, data, gi, count, file_exists, file_lines,
                   file_mode, written, nulls, last_resp, selIn, selOut,
                   file_at_start, register_resp, last_items>>

\* lines 69-71: the register response is printed, register_to_api returns
RegisterResponse(r) ==
    /\ pc = "AwaitRegister"
    /\ register_resp' = r
    /\ IF HandshakeRaises(r)
       THEN Raise("ClientError")
       ELSE pc' = "Validate" /\ err' = err
    /\ UNCHANGED buffered
    /\ UNCHANGED <<cfg, total_count, prev_total, batch_count, pbar_n,
                   last_update, data, gi, count, file_exists, file_lines,
                   file_mode, written, requests, reg_body, nulls, last_resp,
                   selIn, selOut,
                   file_at_start, reset_resp, last_items>>

\* the file always opened for writing
FileModeWrite(append_to_previous, exists) == "w"

\* line 231
FileMode(append_to_previous, exists) ==
    IF append_to_previous /\ exists THEN "a" ELSE "w"

\* the existence check without the append flag
RefuseExistingAlways(exists, append_to_previous) == exists

\* line 225
RefuseExisting(exists, append_to_previous) == exists /\ ~append_to_previous

\* lines 225-235: the existence check, then open(filepath, file_mode)
ValidateAndOpen ==
    /\ pc = "Validate"
    /\ IF RefuseExisting(file_exists, cfg.append_to_previous)
       THEN /\ Raise("FileExistsValueError")
            /\ UNCHANGED <<file_exists, file_lines, file_mode>>
       ELSE /\ pc' = "Loop"
            /\ err' = err
            /\ file_mode' = FileMode(cfg.append_to_previous, file_exists)
            /\ file_exists' = TRUE
            /\ file_lines' = IF file_mode' = "w" THEN <<>> ELSE file_lines
    /\ buffered' = 0
    /\ UNCHANGED <<cfg, total_count, prev_total, batch_count, pbar_n,
                   last_update, data, gi, count, written, requests, reg_body,
                   nulls, last_resp, selIn, selOut,
                   file_at_start, reset_resp, register_resp, last_items>>

\* the loop test with <= for <
LoopConditionInclusive(total, num_seqs_to_save) == total <= num_seqs_to_save

\* the loop left one record short of the target
LoopConditionShort(total, num_seqs_to_save) == total < num_seqs_to_save - 1

\* line 236
LoopCondition(total, num_seqs_to_save) == total < num_seqs_to_save

\* line 236 -> 237 -> 200 -> 86: the loop test; a true test calls grab_batch,
\* whose check_for_batch sends a next-batch request; a false one leaves the
\* with blocks
LoopTest ==
    /\ pc = "Loop"
    /\ IF LoopCondition(total_count, cfg.num_seqs_to_save)
       THEN /\ pc' = "AwaitBatch"
            /\ requests' = LogAppend(requests, "batch")
       ELSE /\ pc' = "Done"
            /\ UNCHANGED requests
    /\ buffered' = BufferAfter(pc', buffered)
    /\ UNCHANGED <<err, cfg, total_count, prev_total, batch_count, pbar_n,
                   last_update, data, gi, count, file_exists, file_lines,
                   file_mode, written, reg_body, nulls, last_resp, selIn,
                   selOut, file_at_start, reset_resp, register_resp,
                   last_items>>

\* an empty batch taken for not ready
BatchReadyNonEmpty(body) == body.kind # "null" /\ body.batch # <<>>

\* line 88
BatchReady(body) == body.kind # "null"

\* lines 86-90 and 200-201: the response to a next-batch request
BatchResponse(resp) ==
    /\ pc = "AwaitBatch"
    /\ last_resp' = resp
    /\ LET parsed == ParseHttpResponse(resp)
       IN  IF resp.kind = "transport"
           THEN Raise("ClientError") /\ UNCHANGED <<data, gi, count, nulls>>
           ELSE IF parsed.err # "none"
           THEN Raise(parsed.err) /\ UNCHANGED <<data, gi, count, nulls>>
           ELSE IF parsed.data.kind = "no_batch_field"
           THEN Raise("KeyError") /\ UNCHANGED <<data, gi, count, nulls>>
           ELSE IF BatchReady(parsed.data)
           THEN /\ pc' = "Selecting"
                /\ data' = parsed.data.batch
                /\ gi' = 1
                /\ count' = 0
                /\ UNCHANGED <<err, nulls>>
           ELSE /\ pc' = "Sleeping"
                /\ nulls' = Min(nulls + 1, MaxNulls)
                /\ UNCHANGED <<err, data, gi, count>>
    /\ buffered' = BufferAfter(pc', buffered)
    /\ UNCHANGED <<cfg, total_count, prev_total, batch_count, pbar_n,
                   last_update, file_exists, file_lines, file_mode, written,
                   requests, reg_body, selIn, selOut,
                   file_at_start, reset_resp, register_resp, last_items>>

\* the registration repeated when the sleep ends
WakeReRegister ==
    /\ pc = "Sleeping"
    /\ pc' = "AwaitBatch"
    /\ requests' = LogAppend(requests, "register")
    /\ UNCHANGED <<err, cfg, total_count, prev_total, batch_count, pbar_n,
                   last_update, data, gi, count, file_exists, file_lines,
                   file_mode, written, reg_body, nulls, last_resp, selIn, selOut,
                   file_at_start, reset_resp, register_resp, last_items,
                   buffered>>

\* lines 90, 84-86: the sleep ends, the next request is sent
Wake ==
    /\ pc = "Sleeping"
    /\ pc' = "AwaitBatch"
    /\ requests' = LogAppend(requests, "batch")
    /\ UNCHANGED buffered
    /\ UNCHANGED <<err, cfg, total_count, prev_total, batch_count, pbar_n,
                   last_update, data, gi, count, file_exists, file_lines,
                   file_mode, written, reg_body, nulls, last_resp, selIn, selOut,
                   file_at_start, reset_resp, register_resp, last_items>>

\* the records put in front of the lines of the file
WriteAllInFront(lines, items) == items \o lines

\* lines 209-211: jsonl_writer.write(item) for each item of the group, in
\* order, each adding one line at the end of the file
WriteAll(lines, items) == lines \o items

\* lines 202-212: one iteration of the loop over the groups of the batch
ProcessGroup ==
    /\ pc = "Selecting"
    /\ gi <= Len(data)
    /\ LET r == grab_group_data(data[gi],
                                cfg.criteria.save_messages,
                                cfg.criteria.save_top_n_per_group,
                                cfg.criteria.allow_negative_scores,
                                cfg.criteria.minimum_score_diff_max_min)
       IN  IF r.err # "none"
           THEN /\ Raise(r.err)
                /\ buffered' = BufferAfter(pc', buffered)
                /\ UNCHANGED <<gi, count, file_lines, written, last_items>>
           ELSE /\ last_items' = r.items
                /\ file_lines' = WriteAll(file_lines, r.items)
                /\ written' = written + Len(r.items)
                /\ buffered' = buffered + Len(r.items)
                /\ count' = count + Len(r.items)
                /\ gi' = gi + 1
                /\ UNCHANGED <<pc, err>>
    /\ UNCHANGED <<cfg, total_count, prev_total, batch_count, pbar_n,
                   last_update, data, file_exists, file_mode, requests,
                   reg_body, nulls, last_resp, selIn, selOut,
                   file_at_start, reset_resp, register_resp>>

\* the count assigned, not added
AddCountAssigned(total, batch) == batch

\* line 238
AddCount(total, batch) == total + batch

\* line 239: the argument of pbar.update, computed from the updated total
ProgressDelta(batch, num_seqs_to_save, total) ==
    Min(batch, num_seqs_to_save - total)

\* lines 213, 237-239: grab_batch returns, the count is added and reported
FinishBatch ==
    /\ pc = "Selecting"
    /\ gi > Len(data)
    /\ batch_count' = count
    /\ prev_total' = total_count
    /\ total_count' = AddCount(total_count, count)
    /\ last_update' = ProgressDelta(count, cfg.num_seqs_to_save, total_count')
    /\ pbar_n' = pbar_n + last_update'
    /\ pc' = "Loop"
    \* the locals of grab_batch end with the call
    /\ data' = <<>>
    /\ gi' = 1
    /\ count' = 0
    /\ last_resp' = NoResponse
    /\ nulls' = 0
    /\ UNCHANGED buffered
    /\ UNCHANGED <<err, cfg, file_exists, file_lines, file_mode, written,
                   requests, reg_body, selIn, selOut, file_at_start,
                   reset_resp, register_resp, last_items>>

Next ==
    \/ SendReset
    \/ \E r \in HandshakeResponses : ResetResponse(r)
    \/ \E r \in HandshakeResponses : RegisterResponse(r)
    \/ ValidateAndOpen
    \/ LoopTest
    \/ \E resp \in BatchResponses : BatchResponse(resp)
    \/ Wake
    \/ ProcessGroup
    \/ FinishBatch

Spec == Init /\ [][Next]_vars

\* The steps the run takes by itself, but for ProcessGroup: the event loop
\* resumes the one coroutine whenever it can run.  When the service answers
\* is left open.
ProgramStep ==
    \/ SendReset
    \/ ValidateAndOpen
    \/ LoopTest
    \/ Wake
    \/ FinishBatch

\* ENABLED <<ProcessGroup>>_vars: a step of ProcessGroup always changes gi
\* or pc
ProcessGroupEnabled == pc = "Selecting" /\ gi <= Len(data)

\* weak fairness of ProcessGroup, with its enabling condition written out
ProcessGroupFair ==
    (<>[]ProcessGroupEnabled) => []<><<ProcessGroup>>_vars

LiveSpec ==
    Init /\ [][Next]_vars /\ WF_vars(ProgramStep) /\ ProcessGroupFair

-----------------------------------------------------------------------------
(* The run with the file system and the operating system acting on it.     *)
(* open(filepath, file_mode) of line 232 returns a buffered text handle    *)
(* and jsonlines.Writer(f) of line 233 is built without flush=True: a      *)
(* written record stays in the handle's buffer until the buffer fills or   *)
(* the handle is closed.                                                   *)

FileOpen == pc \in {"Loop", "AwaitBatch", "Sleeping", "Selecting"}

\* the lines a reader of filepath finds
DiskLines == SubSeq(file_lines, 1, Len(file_lines) - buffered)

\* the handle's buffer is full and is written to the disk
BufferFlush ==
    /\ FileOpen
    /\ buffered > 0
    /\ buffered' = 0
    /\ UNCHANGED <<pc, err, cfg, total_count, prev_total, batch_count,
                   pbar_n, last_update, data, gi, count, file_exists,
                   file_lines, file_mode, written, requests, reg_body, nulls,
                   last_resp, file_at_start, reset_resp, register_resp,
                   last_items, selIn, selOut>>

\* the process is terminated: no with block is left, the buffer is lost
Kill ==
    /\ pc \notin {"Done", "Failed", "Killed"}
    /\ pc' = "Killed"
    /\ UNCHANGED <<err, cfg, total_count, prev_total, batch_count, pbar_n,
                   last_update, data, gi, count, file_exists, file_lines,
                   file_mode, written, requests, reg_body, nulls, last_resp,
                   file_at_start, reset_resp, register_resp, last_items,
                   buffered, selIn, selOut>>

DurNext ==
    \/ Next
    \/ BufferFlush
    \/ Kill

SpecDur == Init /\ [][DurNext]_vars

-----------------------------------------------------------------------------
(* register_to_api on its own, called by sft_data_grabber (lines 216-222)  *)
(* under configurations that vary group_size and tasks_per_step            *)

RegConfigs ==
    [append_to_previous : BOOLEAN,
     num_seqs_to_save : (-1)..MaxTarget,
     criteria : RunCriteria,
     group_size : 1..MaxGroupSize,
     tasks_per_step : {1, 64},
     max_token_len : {2048}]

RegInit ==
    /\ pc = "Start"
    /\ err = "none"
    /\ cfg \in RegConfigs
    /\ total_count = 0
    /\ prev_total = 0
    /\ batch_count = 0
    /\ pbar_n = 0
    /\ last_update = 0
    /\ data = <<>>
    /\ gi = 1
    /\ count = 0
    /\ file_exists = FALSE
    /\ file_lines = <<>>
    /\ file_mode = "none"
    /\ written = 0
    /\ requests = <<>>
    /\ reg_body = [batch_size |-> 0, num_steps |-> 0, max_token_len |-> 0]
    /\ nulls = 0
    /\ last_resp = NoResponse
    /\ file_at_start = FALSE
    /\ reset_resp = "none"
    /\ register_resp = "none"
    /\ last_items = <<>>
    /\ buffered = 0
    /\ selIn = NoSelIn
    /\ selOut = NoSelOut

RegNext ==
    \/ SendReset
    \/ \E r \in HandshakeResponses : ResetResponse(r)
    \/ \E r \in HandshakeResponses : RegisterResponse(r)

SpecReg == RegInit /\ [][RegNext]_vars

-----------------------------------------------------------------------------
(* grab_group_data on its own: the arguments are drawn from bounded sets *)

ScoreChoices == {-1, 0, 1, 2}
\* token sequences decoding to "a", "b", "ab", "abab"
TokChoices == {<<1>>, <<2>>, <<3>>, <<3, 3>>}

RECURSIVE SeqsUpTo(_, _)
SeqsUpTo(S, n) ==
    IF n = 0 THEN {<<>>}
    ELSE LET shorter == SeqsUpTo(S, n - 1)
         IN  shorter \cup {Append(q, x) : q \in shorter, x \in S}

\* the well-formed group of a sequence of (score, tokens) entries; the
\* message of candidate i is i
GroupOf(entries) ==
    Group(AllFields,
          [i \in 1..Len(entries) |-> entries[i][1]],
          [i \in 1..Len(entries) |-> i],
          [i \in 1..Len(entries) |-> entries[i][2]])

SelGroups ==
    {GroupOf(e) : e \in SeqsUpTo(ScoreChoices \X TokChoices, MaxCands)}
    \cup ServiceGroups

SelCriteria ==
    [save_messages : BOOLEAN,
     save_top_n_per_group : {-1, 0, 1, 2},
     allow_negative_scores : BOOLEAN,
     minimum_score_diff_max_min : {0, 1}]

\* spec scenario A: scores 0.9, 0.1, -0.2, top 2, negatives disallowed
ScenarioA ==
    [group |-> GroupA,
     criteria |-> [save_messages |-> TRUE, save_top_n_per_group |-> 2,
                   allow_negative_scores |-> FALSE,
                   minimum_score_diff_max_min |-> 0]]

\* spec scenario B: scores 5, 5.5, 0 with threshold 0.6 (defaults otherwise)
ScenarioB ==
    [group |-> Group(AllFields, <<50, 55, 0>>, <<1, 2, 3>>,
                     << <<1>>, <<1>>, <<1>> >>),
     criteria |-> [save_messages |-> TRUE, save_top_n_per_group |-> 3,
                   allow_negative_scores |-> FALSE,
                   minimum_score_diff_max_min |-> 6]]

SelInputs ==
    [group : SelGroups, criteria : SelCriteria] \cup {ScenarioA, ScenarioB}

SelInit ==
    /\ pc = "SelCall"
    /\ selIn \in SelInputs
    /\ selOut = NoSelOut
    /\ err = "none"
    /\ cfg = CHOOSE c \in Configs : TRUE
    /\ total_count = 0
    /\ prev_total = 0
    /\ batch_count = 0
    /\ pbar_n = 0
    /\ last_update = 0
    /\ data = <<>>
    /\ gi = 1
    /\ count = 0
    /\ file_exists = FALSE
    /\ file_lines = <<>>
    /\ file_mode = "none"
    /\ written = 0
    /\ requests = <<>>
    /\ reg_body = [batch_size |-> 0, num_steps |-> 0, max_token_len |-> 0]
    /\ nulls = 0
    /\ last_resp = NoResponse
    /\ file_at_start = FALSE
    /\ reset_resp = "none"
    /\ register_resp = "none"
    /\ last_items = <<>>
    /\ buffered = 0

\* one call of grab_group_data
SelApply ==
    /\ pc = "SelCall"
    /\ selOut' = grab_group_data(selIn.group,
                                 selIn.criteria.save_messages,
                                 selIn.criteria.save_top_n_per_group,
                                 selIn.criteria.allow_negative_scores,
                                 selIn.criteria.minimum_score_diff_max_min)
    /\ pc' = "SelReturned"
    /\ UNCHANGED <<err, cfg, total_count, prev_total, batch_count, pbar_n,
                   last_update, data, gi, count, file_exists, file_lines,
                   file_mode, written, requests, reg_body, nulls, last_resp,
                   file_at_start, reset_resp, register_resp, last_items,
                   buffered, selIn>>

SelNext == SelApply

SpecSel == SelInit /\ [][SelNext]_vars

-----------------------------------------------------------------------------
(* Harness of find_common_prefix: one call on an enumerated list *)

\* the values of the run's variables while a harness calls a function
HarnessIdle ==
    /\ err = "none"
    /\ cfg = CHOOSE c \in Configs : TRUE
    /\ total_count = 0
    /\ prev_total = 0
    /\ batch_count = 0
    /\ pbar_n = 0
    /\ last_update = 0
    /\ data = <<>>
    /\ gi = 1
    /\ count = 0
    /\ file_exists = FALSE
    /\ file_lines = <<>>
    /\ file_mode = "none"
    /\ written = 0
    /\ requests = <<>>
    /\ reg_body = [batch_size |-> 0, num_steps |-> 0, max_token_len |-> 0]
    /\ nulls = 0
    /\ last_resp = NoResponse
    /\ file_at_start = FALSE
    /\ reset_resp = "none"
    /\ register_resp = "none"
    /\ last_items = <<>>
    /\ buffered = 0

runVars == <<err, cfg, total_count, prev_total, batch_count, pbar_n,
             last_update, data, gi, count, file_exists, file_lines,
             file_mode, written, requests, reg_body, nulls, last_resp,
             file_at_start, reset_resp, register_resp, last_items, buffered>>

\* the strings over "a" and "b", the empty string included
PrefixTexts == SeqsUpTo({"a", "b"}, MaxTextLen)

\* the argument lists, the empty list included
PrefixInputs == [strings : SeqsUpTo(PrefixTexts, MaxStrings)]

PrefixInit ==
    /\ pc = "PrefixCall"
    /\ selIn \in PrefixInputs
    /\ selOut = NoSelOut
    /\ HarnessIdle

\* one call of find_common_prefix
PrefixApply ==
    /\ pc = "PrefixCall"
    /\ selOut' = [prefix |-> find_common_prefix(selIn.strings)]
    /\ pc' = "PrefixReturned"
    /\ UNCHANGED <<runVars, selIn>>

PrefixNext == PrefixApply

SpecPrefix == PrefixInit /\ [][PrefixNext]_vars

-----------------------------------------------------------------------------
(* Properties of the run *)

PollStates == {"Loop", "AwaitBatch", "Sleeping", "Selecting"}
InGrabBatch == {"AwaitBatch", "Sleeping", "Selecting"}

Polled == \E i \in 1..Len(requests) : requests[i] = "batch"

\* C1: a next-batch poll is in progress only while total_count is below
\* num_seqs_to_save; the run is Done only with total_count at or above it,
\* and then the count before the last batch was below it; with a target of
\* zero or less no poll is ever issued.
C1_StopsAtTarget ==
    /\ pc \in InGrabBatch => total_count < cfg.num_seqs_to_save
    /\ pc = "Done" => total_count >= cfg.num_seqs_to_save
    /\ (pc = "Done" /\ Polled) => prev_total < cfg.num_seqs_to_save
    /\ cfg.num_seqs_to_save <= 0 => ~Polled /\ pc \notin InGrabBatch

\* target 5, batches of 3 then 4 records: Done with total_count = 7
C1_Witness ==
    /\ pc = "Done"
    /\ cfg.num_seqs_to_save = 5
    /\ prev_total = 3
    /\ batch_count = 4
    /\ total_count = 7

\* C3: between batches and at Done total_count is the number of records
\* written to the output handle by this run, which is the number of lines the
\* run added to the file; total_count never decreases.
C3_CountIsWritten ==
    /\ [](pc \in {"Loop", "Done"} =>
            /\ total_count = written
            /\ Len(file_lines) =
                 (IF file_mode = "a" THEN NumOldLines ELSE 0) + total_count)
    /\ [][total_count' >= total_count]_vars

\* a batch that added nothing, after one that added something
C3_Witness ==
    /\ pc = "Loop"
    /\ total_count = written
    /\ prev_total = total_count
    /\ total_count > 0

\* records of the batch in progress are written and not yet counted
C3_MidBatchWitness == pc = "Selecting" /\ written > total_count

\* C4 as stated: the configuration error comes before any request.
C4_NoRequestBeforeConfigError ==
    err = "FileExistsValueError" => requests = <<>>

\* C4, amended: an existing file without append_to_previous ends the run with
\* the configuration error after the reset and register requests were sent
\* and before the file is opened or a next-batch request is sent; the file
\* is unchanged; and no such run gets past the check.
C4_ConfigErrorAfterRegister ==
    /\ err = "FileExistsValueError" =>
          /\ pc = "Failed"
          /\ file_at_start /\ ~cfg.append_to_previous
          /\ requests = <<"reset", "register">>
          /\ file_mode = "none"
          /\ file_lines = OldLines
          /\ written = 0
    /\ (file_at_start /\ ~cfg.append_to_previous) =>
          pc \notin PollStates \cup {"Done"}

C4_Witness == err = "FileExistsValueError" /\ Len(requests) = 2

HandshakeFailed(r) == r \in {"transport", "http_error"}

\* C6 as stated: a transport failure or a non-success response to reset or
\* register puts the run in Failed with no file opened, no poll, no record.
C6_BadHandshakeFails ==
    (HandshakeFailed(reset_resp) \/ HandshakeFailed(register_resp)) =>
        /\ pc = "Failed"
        /\ file_mode = "none"
        /\ ~Polled
        /\ written = 0

\* C6, amended: a transport failure of the reset or register request puts
\* the run in Failed with no file opened, no poll and no record; a
\* non-success response is not detected: the run carries on as after a
\* success, and the only failure of the handshake is a transport failure.
C6_TransportFailureFails ==
    /\ (reset_resp = "transport" \/ register_resp = "transport") =>
          /\ pc = "Failed"
          /\ err = "ClientError"
          /\ file_mode = "none"
          /\ ~Polled
          /\ written = 0
          /\ file_lines = (IF file_at_start THEN OldLines ELSE <<>>)
    /\ reset_resp = "transport" => requests = <<"reset">>
    /\ reset_resp = "http_error" => Len(requests) >= 2
    /\ (register_resp = "http_error" /\ pc = "Failed") =>
          err # "ClientError" \/ Polled
    /\ (pc = "Failed" /\ err = "ClientError" /\ ~Polled) =>
          reset_resp = "transport" \/ register_resp = "transport"

C6_Witness ==
    /\ register_resp = "transport"
    /\ reset_resp = "http_error"
    /\ pc = "Failed"

\* the run went on after a non-success register response
C6_ProceedsWitness == register_resp = "http_error" /\ pc = "Done" /\ written > 0

\* the candidates grab_group_data pairs with the scores
Candidates(g, save_messages) == IF save_messages THEN g.messages ELSE g.tokens

LengthsDiffer(g, save_messages) ==
    /\ g.fields = AllFields
    /\ Len(g.scores) # Len(Candidates(g, save_messages))

\* C7 as stated: no group whose scores and candidates differ in length is
\* processed; the run aborts on it.
C7_MismatchIsFatal ==
    (pc = "Selecting" /\ gi > 1) =>
        ~LengthsDiffer(data[gi - 1], cfg.criteria.save_messages)

\* C7, amended: a group whose scores and candidates differ in length raises
\* no error; its scores and candidates are paired by position up to the
\* shorter length, the selected records come from those pairs, and the run
\* goes on with the next group.
C7_MismatchIsTruncated ==
    (/\ pc \in {"Selecting", "Failed"}
     /\ gi > 1
     /\ LengthsDiffer(data[gi - 1], cfg.criteria.save_messages)) =>
        LET g == data[gi - 1]
            m == Min(Len(g.scores), Len(Candidates(g, cfg.criteria.save_messages)))
        IN  /\ Len(last_items) <= m
            /\ \A k \in 1..Len(last_items) :
                  \E i \in 1..m :
                     /\ last_items[k].score = g.scores[i]
                     /\ cfg.criteria.save_messages =>
                           last_items[k].messages = g.messages[i]
            /\ count >= Len(last_items)
            /\ written >= Len(last_items)

C7_Witness ==
    /\ pc = "Selecting"
    /\ gi > 1
    /\ LengthsDiffer(data[gi - 1], cfg.criteria.save_messages)
    /\ Len(last_items) = 1
    /\ err = "none"

\* C8 as stated: check_for_batch returns only a batch of at least one group.
C8_ReturnsNonEmptyBatch == pc = "Selecting" => Len(data) >= 1

\* C8, amended: check_for_batch returns the first response whose batch is not
\* null, an empty list included: a null batch is followed by the sleep and a
\* new next-batch request, any other batch is returned as it is.
C8_ReturnsFirstNonNullBatch ==
    /\ [](pc = "Selecting" => last_resp.kind = "batch" /\ data = last_resp.batch)
    /\ [][/\ (pc = "AwaitBatch" /\ pc' # pc /\ last_resp'.kind = "null") =>
                pc' = "Sleeping" /\ requests' = requests
          /\ (pc = "Sleeping" /\ pc' # pc) =>
                /\ pc' = "AwaitBatch"
                /\ requests' = LogAppend(requests, "batch")
          /\ (pc = "AwaitBatch" /\ pc' # pc /\ last_resp'.kind = "batch") =>
                /\ pc' = "Selecting"
                /\ data' = last_resp'.batch
                /\ requests' = requests
          /\ pc' = "Sleeping" => last_resp'.kind = "null"]_vars

\* an empty batch returned after a not-ready response
C8_Witness ==
    /\ pc = "Selecting"
    /\ nulls >= 1
    /\ data = <<>>
    /\ last_resp.kind = "batch"

MissingField(g, save_messages) ==
    \/ "scores" \notin g.fields
    \/ (IF save_messages THEN "messages" ELSE "tokens") \notin g.fields

\* C9: a not-ready response is retried and never fails the run, and nothing
\* else is retried; a transport error, a response without the batch field
\* and a group without its scores or candidates field abort the run, and no
\* request is sent by or after the abort.
C9_OnlyNotReadyIsRetried ==
    [][/\ (pc = "AwaitBatch" /\ pc' # pc /\ last_resp'.kind = "null") =>
             pc' = "Sleeping" /\ err' = "none"
       /\ pc' = "Sleeping" => (pc = "Sleeping" \/ last_resp'.kind = "null")
       /\ (/\ pc = "AwaitBatch"
           /\ pc' # pc
           /\ last_resp'.kind \in {"transport", "no_batch_field"}) =>
             /\ pc' = "Failed"
             /\ err' = (IF last_resp'.kind = "transport"
                        THEN "ClientError" ELSE "KeyError")
       /\ (/\ pc = "Selecting"
           /\ gi <= Len(data)
           /\ (pc' # pc \/ gi' # gi)
           /\ MissingField(data[gi], cfg.criteria.save_messages)) =>
             pc' = "Failed" /\ err' = "KeyError" /\ written' = written
       /\ pc' = "Failed" => requests' = requests
       /\ pc = "Failed" => pc' = "Failed"]_vars

\* a not-ready response was retried, then a group without scores aborted
C9_Witness ==
    /\ pc = "Failed"
    /\ err = "KeyError"
    /\ nulls >= 1
    /\ last_resp.kind = "batch"
    /\ gi = 2
    /\ written = 1

\* a batch in progress has yielded at least one record
YieldingBatch == pc = "Selecting" /\ count >= 1

\* the poll loop is left only at the target or by an exception
LeavesLoopOnlyAtTargetOrError ==
    (pc \in PollStates /\ pc' \notin PollStates) =>
        \/ pc' = "Done" /\ total_count >= cfg.num_seqs_to_save
        \/ /\ pc' = "Failed"
           /\ err' \in {"ClientError", "HTTPError", "KeyError", "ValueError",
                        "IndexError"}
           /\ \/ pc = "AwaitBatch" /\ last_resp'.kind \notin {"null", "batch"}
              \/ pc = "Selecting" /\ gi <= Len(data)

\* C2: if batches yielding at least one record keep arriving the run reaches
\* Done; and the run leaves the poll loop only with the target reached or by a
\* fatal error, however many polls were made: short of the target it is never
\* Done, and a not-ready response leaves it polling.
C2_DoneIffEnoughRecords ==
    /\ ([]<>YieldingBatch) => <>(pc = "Done")
    /\ [][LeavesLoopOnlyAtTargetOrError]_vars
    /\ [](total_count < cfg.num_seqs_to_save => pc # "Done")

\* Done after more polls than the request log holds
C2_Witness ==
    /\ pc = "Done"
    /\ cfg.num_seqs_to_save >= 2
    /\ Len(requests) = MaxLog
    /\ total_count >= cfg.num_seqs_to_save

\* still polling with the not-ready counter at its cap
C2_StillPollingWitness ==
    /\ pc = "Sleeping"
    /\ nulls = MaxNulls
    /\ Len(requests) = MaxLog
    /\ total_count < cfg.num_seqs_to_save

-----------------------------------------------------------------------------
(* Properties of grab_group_data *)

SelReturned == pc = "SelReturned" /\ selOut.err = "none"

ItemScores(items) == [k \in 1..Len(items) |-> items[k].score]

\* C10: for a well-formed group the returned list is in non-increasing score
\* order; without allow_negative_scores no entry has a score <= 0; with a
\* threshold t > 0 every entry's score exceeds the minimum of all the group's
\* scores by more than t.  Scenario A returns 0.9, 0.1 and scenario B 5.5, 5.
C10_SortedAndFiltered ==
    (SelReturned /\ WellFormed(selIn.group)) =>
        LET out == selOut.items
            c == selIn.criteria
            t == c.minimum_score_diff_max_min
        IN  /\ \A k \in 1..(Len(out) - 1) : out[k].score >= out[k + 1].score
            /\ ~c.allow_negative_scores =>
                  \A k \in 1..Len(out) : out[k].score > 0
            /\ t > 0 =>
                  \A k \in 1..Len(out) :
                     \E i \in 1..Len(selIn.group.scores) :
                        /\ \A j \in 1..Len(selIn.group.scores) :
                              selIn.group.scores[i] <= selIn.group.scores[j]
                        /\ out[k].score - selIn.group.scores[i] > t
            /\ selIn = ScenarioA => ItemScores(out) = <<9, 1>>
            /\ selIn = ScenarioB => ItemScores(out) = <<55, 50>>

\* the minimum is taken over all the scores of the group: the entry of score
\* 1 is kept because it exceeds the dropped entry's -1 by more than 1
C10_Witness ==
    /\ SelReturned
    /\ selIn.group.scores = <<-1, 1>>
    /\ ~selIn.criteria.allow_negative_scores
    /\ selIn.criteria.minimum_score_diff_max_min = 1
    /\ selIn.criteria.save_top_n_per_group = 2
    /\ ItemScores(selOut.items) = <<1>>

C10_ScenarioWitness ==
    /\ SelReturned
    /\ selIn = ScenarioB
    /\ ItemScores(selOut.items) = <<55, 50>>

\* the entries of group g that pass the filters of criteria c
PassSet(g, c) ==
    {i \in 1..Len(g.scores) :
        /\ c.allow_negative_scores \/ g.scores[i] > 0
        /\ c.minimum_score_diff_max_min > 0 =>
              \E j \in 1..Len(g.scores) :
                 g.scores[i] - g.scores[j] > c.minimum_score_diff_max_min}

\* the place of entry i among the passing entries: behind those of higher
\* score and those of equal score that come earlier in the group
Rank(g, c, i) ==
    1 + Cardinality({j \in PassSet(g, c) :
                        \/ g.scores[j] > g.scores[i]
                        \/ g.scores[j] = g.scores[i] /\ j < i})

\* C11: for save_top_n_per_group = n >= 0 the returned list is the first
\* min(n, p) entries of the p passing entries in descending, stable score
\* order; an empty group, n = 0 and no passing entry give the empty list.
C11_TopNOfStableOrder ==
    (/\ SelReturned
     /\ WellFormed(selIn.group)
     /\ selIn.criteria.save_top_n_per_group >= 0) =>
        LET g == selIn.group
            c == selIn.criteria
            out == selOut.items
            p == Cardinality(PassSet(g, c))
        IN  /\ Len(out) = Min(c.save_top_n_per_group, p)
            /\ \A i \in PassSet(g, c) :
                  Rank(g, c, i) <= Len(out) =>
                     /\ out[Rank(g, c, i)].score = g.scores[i]
                     /\ c.save_messages =>
                           out[Rank(g, c, i)].messages = g.messages[i]
            /\ (g.scores = <<>> \/ c.save_top_n_per_group = 0 \/ p = 0) =>
                  out = <<>>

\* two entries of equal score, the cap at one: the first of the group is kept
C11_Witness ==
    /\ SelReturned
    /\ selIn.group.scores = <<1, 1>>
    /\ selIn.criteria.save_messages
    /\ selIn.criteria.save_top_n_per_group = 1
    /\ selOut.items = <<[messages |-> 1, score |-> 1]>>

\* whether p is a prefix of every string of the list
PrefixOfAll(p, strings) ==
    \A i \in 1..Len(strings) :
       Len(p) <= Len(strings[i]) /\ \A k \in 1..Len(p) : p[k] = strings[i][k]

\* C12: the result of find_common_prefix is a prefix of every string of the
\* list and no longer string is a prefix of all of them; it is "" for the
\* empty list and for a list whose strings share no non-empty prefix.
C12_LongestCommonPrefix ==
    pc = "PrefixReturned" =>
        LET strings == selIn.strings
            p == selOut.prefix
        IN  /\ strings = <<>> => p = <<>>
            /\ strings # <<>> =>
                  /\ PrefixOfAll(p, strings)
                  /\ \A x \in {"a", "b"} : ~PrefixOfAll(Append(p, x), strings)
            /\ (\A x \in {"a", "b"} : ~PrefixOfAll(<<x>>, strings)) => p = <<>>

\* three strings, the prefix shrunk from "ab" to "a" by the last one
C12_Witness ==
    /\ pc = "PrefixReturned"
    /\ selIn.strings = << <<"a", "b">>, <<"a", "b">>, <<"a", "a">> >>
    /\ selOut.prefix = <<"a">>

\* the decoded texts of a group
TextsOf(g) == [i \in 1..Len(g.tokens) |-> Decode(g.tokens[i])]

DecodedCall == ~selIn.criteria.save_messages /\ WellFormed(selIn.group)

\* C13: in decoded-text mode every returned record has the group's longest
\* common prefix as prefix and, as completion, the rest of the decoded text
\* of its candidate: prefix followed by completion is the decoded text.
C13_PrefixThenCompletionIsText ==
    (SelReturned /\ DecodedCall) =>
        \A k \in 1..Len(selOut.items) :
           /\ selOut.items[k].prefix = find_common_prefix(TextsOf(selIn.group))
           /\ \E i \in 1..Len(selIn.group.scores) :
                 /\ selIn.group.scores[i] = selOut.items[k].score
                 /\ selOut.items[k].prefix \o selOut.items[k].completion
                       = TextsOf(selIn.group)[i]

\* texts "abab" and "ab": the record of "abab" has the completion ""
C13_LostText ==
    /\ SelReturned
    /\ ~selIn.criteria.save_messages
    /\ selIn.group.scores = <<2, 1>>
    /\ TextsOf(selIn.group) = << <<"a", "b", "a", "b">>, <<"a", "b">> >>
    /\ selOut.items = <<[prefix |-> <<"a", "b">>, completion |-> <<>>,
                         score |-> 2]>>

\* C14: in decoded-text mode grab_group_data returns a list of records for
\* every well-formed group: with no common prefix the records have the
\* prefix "" and the whole text as completion, with one candidate or
\* identical texts the completion "".
C14_DecodedModeNeverRaises ==
    (pc = "SelReturned" /\ DecodedCall) =>
        /\ selOut.err = "none"
        /\ find_common_prefix(TextsOf(selIn.group)) = <<>> =>
              \A k \in 1..Len(selOut.items) :
                 /\ selOut.items[k].prefix = <<>>
                 /\ \E i \in 1..Len(selIn.group.scores) :
                       selOut.items[k].completion = TextsOf(selIn.group)[i]
        /\ (\A i \in 1..Len(selIn.group.tokens) :
               TextsOf(selIn.group)[i] = TextsOf(selIn.group)[1]) =>
              \A k \in 1..Len(selOut.items) : selOut.items[k].completion = <<>>

\* texts "a" and "b" share no prefix: the call ends in ValueError
C14_EmptySeparator ==
    /\ pc = "SelReturned"
    /\ DecodedCall
    /\ TextsOf(selIn.group) = << <<"a">>, <<"b">> >>
    /\ selOut.err = "ValueError"

\* one candidate: its text is the prefix and the completion is ""
C14_SingleCandidate ==
    /\ SelReturned
    /\ DecodedCall
    /\ Len(selIn.group.tokens) = 1
    /\ selOut.items = <<[prefix |-> <<"a", "b">>, completion |-> <<>>,
                         score |-> 1]>>

\* the list grab_group_data returns for group g under the run's criteria
SelectorOutput(g) ==
    grab_group_data(g,
                    cfg.criteria.save_messages,
                    cfg.criteria.save_top_n_per_group,
                    cfg.criteria.allow_negative_scores,
                    cfg.criteria.minimum_score_diff_max_min).items

\* C15: the file grows only by the selector output of the next group of the
\* batch in hand, added whole at the end; the groups of a batch are taken in
\* order and a batch is replaced only when all its groups have been taken,
\* by the batch of the response just received.
C15_AppendedInArrivalOrder ==
    [][/\ file_lines' # file_lines =>
             \/ pc = "Validate" /\ file_lines' = <<>>
             \/ /\ pc = "Selecting" /\ gi <= Len(data)
                /\ data' = data /\ gi' = gi + 1
                /\ file_lines' = file_lines \o SelectorOutput(data[gi])
       /\ gi' # gi =>
             \/ pc = "Selecting" /\ gi <= Len(data) /\ gi' = gi + 1
             \/ pc = "Selecting" /\ gi > Len(data) /\ gi' = 1
             \/ pc = "AwaitBatch" /\ gi' = 1
       /\ data' # data =>
             \/ pc = "Selecting" /\ gi > Len(data) /\ data' = <<>>
             \/ pc = "AwaitBatch" /\ gi = 1 /\ data = <<>>
                /\ data' = last_resp'.batch]_vars

\* the second batch of a run in hand, its first group written behind the
\* records of the first batch
C15_Witness ==
    /\ pc = "Selecting"
    /\ total_count > 0
    /\ Len(data) = 2
    /\ gi = 2
    /\ count = 2
    /\ written = total_count + count
    /\ SubSeq(file_lines, Len(file_lines) - 1, Len(file_lines))
          = SelectorOutput(data[1])

\* C16: whenever the run has been terminated or has failed, the file on
\* disk holds every record for which a write call had returned.
C16_WrittenRecordsOnDisk ==
    (pc \in {"Killed", "Failed"} /\ file_mode # "none") =>
        /\ buffered = 0
        /\ Len(DiskLines) >= written
        /\ DiskLines = file_lines

\* a run terminated with written records missing from the disk
C16_LostOnKill ==
    /\ pc = "Killed"
    /\ written = 3
    /\ buffered = 2
    /\ Len(DiskLines) = (IF file_mode = "a" THEN NumOldLines ELSE 0) + 1

\* a run failed by an exception: the handle was closed, the records are there
C16_KeptOnFailure ==
    /\ pc = "Failed"
    /\ written > 0
    /\ DiskLines = file_lines

\* the request the run sends in place i
ExpectedRequest(i) ==
    IF i = 1 THEN "reset" ELSE IF i = 2 THEN "register" ELSE "batch"

BatchReported == pc \in {"Loop", "Done"} /\ Polled

\* C18: the increment reported after a batch is the smaller of the records
\* written for the batch and the need that remained before the batch was
\* counted; it is never negative, and the progress reported in total never
\* exceeds num_seqs_to_save; for the target 5 and batches of 3 and 4 records
\* the increments are 3 and 2.
C18_IncrementIsCappedDelta ==
    BatchReported =>
        /\ last_update = Min(batch_count, cfg.num_seqs_to_save - prev_total)
        /\ last_update >= 0
        /\ last_update <= cfg.num_seqs_to_save - prev_total
        /\ pbar_n <= cfg.num_seqs_to_save
        /\ (cfg.num_seqs_to_save = 5 /\ prev_total = 0 /\ batch_count = 3) =>
              last_update = 3
        /\ (cfg.num_seqs_to_save = 5 /\ prev_total = 3 /\ batch_count = 4) =>
              last_update = 2

\* the target 5, batches of 3 and 4 records: the second increment is -2 and
\* the bar is back at 0
C18_NegativeIncrement ==
    /\ BatchReported
    /\ cfg.num_seqs_to_save = 5
    /\ prev_total = 3
    /\ batch_count = 4
    /\ last_update = -2
    /\ pbar_n = 0

\* the register request has been sent
RegisterSent == \E i \in 1..Len(requests) : requests[i] = "register"

\* C19: the register request carries batch_size = group_size *
\* tasks_per_step and num_steps = 2 * total_count as it is at the call,
\* which is 0 under every configuration, whatever num_seqs_to_save is.
C19_RegistrationBody ==
    RegisterSent =>
        /\ reg_body.batch_size = cfg.group_size * cfg.tasks_per_step
        /\ reg_body.num_steps = 2 * total_count
        /\ reg_body.num_steps = 0
        /\ reg_body.max_token_len = cfg.max_token_len

\* group_size 3 and 64 tasks per step with the largest target: batch size
\* 192 and no steps
C19_Witness ==
    /\ pc = "Validate"
    /\ cfg.group_size = 3
    /\ cfg.tasks_per_step = 64
    /\ cfg.num_seqs_to_save = MaxTarget
    /\ reg_body = [batch_size |-> 192, num_steps |-> 0, max_token_len |-> 2048]

=============================================================================
